---- MODULE Spec2Model ----
(***************************************************************************)
(* Authentication token lifecycle of simple-swagger-backend:               *)
(* the in-memory user store (models/User), the token codec                 *)
(* (utils/tokenUtils over jsonwebtoken) and the /api/auth route handlers   *)
(* register, login, refresh-token and logout.                              *)
(*                                                                         *)
(* Strings are tuples of one-character strings so that the length and      *)
(* e-mail checks of the register handler are computed as the code does.    *)
(* Node runs each handler atomically between two awaits; register and      *)
(* login suspend once (on bcrypt), so each is a Begin and a Finish action. *)
(*                                                                         *)
(* Spec        the token lifecycle of the accounts ann and bob             *)
(* SpecStore   registration with any input, concurrent requests included   *)
(* SpecEvict   one user logging in past the capacity of refreshTokens      *)
(* SpecLogins  the same without logout                                     *)
(* SpecRegister, SpecGuard, SpecInterleave, SpecIdentity: see below        *)
(*                                                                         *)
(* utils/googleAI keeps chat sessions in a map, each with a history and a  *)
(* cleanup timer; generateChatSessionResponse suspends once, on the model. *)
(* SpecChat, SpecChatFair: the chat sessions under the clock               *)
(***************************************************************************)
EXTENDS Naturals, Integers, Sequences, FiniteSets, Bags, TLC

VARIABLES users, now, ticks, pendingRegs, pendingLogins, issued, resp,
          chatSessions, chatObjs, timers, pendingChats, chatOut

\* the state of the auth and users routers, with the clock
authVars == <<users, now, ticks, pendingRegs, pendingLogins, issued, resp>>

\* the state of utils/googleAI: the chatSessions map, the session objects
\* it has held, the cleanup timers set, the calls awaiting the model and
\* the last value returned
chatVars == <<chatSessions, chatObjs, timers, pendingChats, chatOut>>

vars == <<authVars, chatVars>>

----------------------------------------------------------------------------
(* Bounds of the model                                                     *)

MaxUsers == 1
MaxTicks == 1
MaxLogins == 2
MaxPendingLogins == 1
MaxStoreUsers == 2
MaxStoreLogins == 1
MaxEvictLogins == 7
MaxEvictTicks == 1
\* SpecRegister: users registered or in flight
MaxRegUsers == 2
\* SpecGuard: clock steps, logins begun
MaxGuardTicks == 1
MaxGuardLogins == 1
\* SpecInterleave: logins begun, clock steps
MaxInterLogins == 3
MaxInterTicks == 1
\* SpecIdentity: users registered or in flight, logins begun
MaxIdUsers == 2
MaxIdLogins == 2
\* SpecChat: session objects created, calls awaiting the model, turns of a
\* session before it takes no more messages, clock steps
MaxChatSessions == 2
MaxPendingChats == 2
MaxChatTurns == 1
MaxChatTicks == 3

----------------------------------------------------------------------------
(* Program constants                                                       *)

\* user.refreshTokens.length >= 5
MaxRefreshTokens == 5
\* ACCESS_TOKEN_EXPIRES_IN || '15m', in seconds
AccessTTL == 900
\* REFRESH_TOKEN_EXPIRES_IN || '7d', in seconds
RefreshTTL == 604800
\* username.length < 3
MinUsernameLen == 3
\* password.length < 6
MinPasswordLen == 6

AccessSecret == "ACCESS_TOKEN_SECRET"
RefreshSecret == "REFRESH_TOKEN_SECRET"

----------------------------------------------------------------------------
(* Request inputs                                                          *)

Empty == << >>
Ann == <<"a", "n", "n">>
Bob == <<"b", "o", "b">>
MailA == <<"a", "@", "b", ".", "c">>
MailD == <<"d", "@", "e", ".", "f">>
TooShortName == <<"a", "b">>
NotAMail == <<"a", " ", "@", "b", ".", "c">>
Secret == <<"s", "e", "c", "r", "e", "t">>
Hunter == <<"h", "u", "n", "t", "e", "r">>
TooShortPw == <<"p", "w">>

\* MailA is a legal username (length >= 3) as well as a legal e-mail
Usernames == {Ann, MailA, TooShortName, Empty}
Emails == {MailA, MailD, NotAMail, Empty}
Passwords == {Secret, TooShortPw, Empty}
LoginNames == {Ann, MailA, MailD, Empty}
LoginPasswords == {Secret, Hunter, Empty}

\* the accounts of the session scenarios: ann by username, bob by e-mail
Accounts ==
    {[username |-> Ann, email |-> MailA, password |-> Secret],
     [username |-> Bob, email |-> MailD, password |-> Hunter]}
SessionNames == {Ann, MailD, Empty}

TickSteps == {1, RefreshTTL}

Range(s) == {s[i] : i \in 1..Len(s)}

----------------------------------------------------------------------------
(* bcrypt, as the opaque capability hash / compare                         *)

bcryptHash(password) == [bcrypt |-> password]

comparePassword(plainPassword, hashedPassword) ==
    hashedPassword.bcrypt = plainPassword

----------------------------------------------------------------------------
(* models/User                                                             *)

User(id, username, email, password) ==
    [id |-> id, username |-> username, email |-> email,
     password |-> password, refreshTokens |-> << >>]

PublicView(user) ==
    [id |-> user.id, username |-> user.username, email |-> user.email]

NoUser == [id |-> 0, username |-> Empty, email |-> Empty]

\* the e-mail left out of the comparison
existingUserByName(us, username, email) ==
    LET hit(i) == us[i].username = username
    IN IF \E i \in 1..Len(us) : hit(i)
       THEN CHOOSE i \in 1..Len(us) : hit(i) /\ \A j \in 1..(i - 1) : ~hit(j)
       ELSE 0

\* Array.prototype.find: index of the first element that matches, 0 if none
existingUser(us, username, email) ==
    LET hit(i) == us[i].username = username \/ us[i].email = email
    IN IF \E i \in 1..Len(us) : hit(i)
       THEN CHOOSE i \in 1..Len(us) : hit(i) /\ \A j \in 1..(i - 1) : ~hit(j)
       ELSE 0

findByCredentials(us, usernameOrEmail) ==
    LET hit(i) == us[i].username = usernameOrEmail
                  \/ us[i].email = usernameOrEmail
    IN IF \E i \in 1..Len(us) : hit(i)
       THEN CHOOSE i \in 1..Len(us) : hit(i) /\ \A j \in 1..(i - 1) : ~hit(j)
       ELSE 0

findById(us, id) ==
    LET hit(i) == us[i].id = id
    IN IF \E i \in 1..Len(us) : hit(i)
       THEN CHOOSE i \in 1..Len(us) : hit(i) /\ \A j \in 1..(i - 1) : ~hit(j)
       ELSE 0

\* the capacity test off by one
addRefreshTokenLate(us, userId, token) ==
    LET u == findById(us, userId)
    IN IF u = 0 THEN us
       ELSE LET old == us[u].refreshTokens
                kept == IF Len(old) > MaxRefreshTokens THEN Tail(old) ELSE old
            IN [us EXCEPT ![u].refreshTokens = Append(kept, token)]

addRefreshToken(us, userId, token) ==
    LET u == findById(us, userId)
    IN IF u = 0 THEN us
       ELSE LET old == us[u].refreshTokens
                kept == IF Len(old) >= MaxRefreshTokens THEN Tail(old) ELSE old
            IN [us EXCEPT ![u].refreshTokens = Append(kept, token)]

\* removes one occurrence (indexOf / splice) instead of filtering
removeRefreshTokenFirst(us, userId, token) ==
    LET u == findById(us, userId)
    IN IF u = 0 THEN us
       ELSE LET old == us[u].refreshTokens
                hits == {i \in 1..Len(old) : old[i] = token}
            IN IF hits = {} THEN us
               ELSE LET k == CHOOSE i \in hits : \A j \in hits : i <= j
                    IN [us EXCEPT ![u].refreshTokens =
                           SubSeq(old, 1, k - 1) \o SubSeq(old, k + 1, Len(old))]

removeRefreshToken(us, userId, token) ==
    LET u == findById(us, userId)
    IN IF u = 0 THEN us
       ELSE [us EXCEPT ![u].refreshTokens =
                SelectSeq(us[u].refreshTokens, LAMBDA t : t /= token)]

hasRefreshToken(us, userId, token) ==
    LET u == findById(us, userId)
    IN IF u = 0 THEN FALSE
       ELSE \E i \in 1..Len(us[u].refreshTokens) :
                us[u].refreshTokens[i] = token

----------------------------------------------------------------------------
(* jsonwebtoken: a token is its payload and the secret that signed it.     *)
(* HS256 is deterministic, so two tokens signed with the same secret for   *)
(* the same userId in the same second (iat) are the same string.           *)

NoToken == [form |-> "none", key |-> "", userId |-> 0, iat |-> 0, exp |-> 0]

Garbage == [form |-> "garbage", key |-> "", userId |-> 0, iat |-> 0, exp |-> 0]

jwtSign(userId, secret, expiresIn, t) ==
    [form |-> "jwt", key |-> secret, userId |-> userId,
     iat |-> t, exp |-> t + expiresIn]

\* the expiry looked at before the signature
jwtVerifyExpiryFirst(token, secret, t) ==
    IF token.form /= "jwt"
    THEN [error |-> "JsonWebTokenError", userId |-> 0]
    ELSE IF t >= token.exp
    THEN [error |-> "TokenExpiredError", userId |-> 0]
    ELSE IF token.key /= secret
    THEN [error |-> "JsonWebTokenError", userId |-> 0]
    ELSE [error |-> "", userId |-> token.userId]

\* jwt.verify: malformed, then signature, then expiry (clock >= exp)
jwtVerify(token, secret, t) ==
    IF token.form /= "jwt"
    THEN [error |-> "JsonWebTokenError", userId |-> 0]
    ELSE IF token.key /= secret
    THEN [error |-> "JsonWebTokenError", userId |-> 0]
    ELSE IF t >= token.exp
    THEN [error |-> "TokenExpiredError", userId |-> 0]
    ELSE [error |-> "", userId |-> token.userId]

----------------------------------------------------------------------------
(* utils/tokenUtils                                                        *)

\* the access token signed for the id after the user's
generateAccessTokenNext(userId, t) ==
    jwtSign(userId + 1, AccessSecret, AccessTTL, t)

\* every access token signed for the first user
generateAccessTokenFirst(userId, t) ==
    jwtSign(1, AccessSecret, AccessTTL, t)

generateAccessToken(userId, t) ==
    jwtSign(userId, AccessSecret, AccessTTL, t)

\* returns the token and the store after User.addRefreshToken
generateRefreshToken(us, userId, t) ==
    LET refreshToken == jwtSign(userId, RefreshSecret, RefreshTTL, t)
    IN [token |-> refreshToken,
        users |-> addRefreshToken(us, userId, refreshToken)]

\* the access token verified under the refresh secret
verifyAccessTokenRefreshKey(token, t) ==
    LET decoded == jwtVerify(token, RefreshSecret, t)
    IN IF decoded.error = ""
       THEN [valid |-> TRUE, expired |-> FALSE, userId |-> decoded.userId]
       ELSE [valid |-> FALSE,
             expired |-> (decoded.error = "TokenExpiredError"),
             userId |-> 0]

verifyAccessToken(token, t) ==
    LET decoded == jwtVerify(token, AccessSecret, t)
    IN IF decoded.error = ""
       THEN [valid |-> TRUE, expired |-> FALSE, userId |-> decoded.userId]
       ELSE [valid |-> FALSE,
             expired |-> (decoded.error = "TokenExpiredError"),
             userId |-> 0]

\* the signature and expiry alone, without the lookup in the user's record
verifyRefreshTokenNoStore(us, token, t) ==
    LET decoded == jwtVerify(token, RefreshSecret, t)
    IN IF decoded.error = ""
       THEN [valid |-> TRUE, expired |-> FALSE, userId |-> decoded.userId]
       ELSE [valid |-> FALSE,
             expired |-> (decoded.error = "TokenExpiredError"),
             userId |-> 0]

verifyRefreshToken(us, token, t) ==
    LET decoded == jwtVerify(token, RefreshSecret, t)
    IN IF decoded.error = ""
       THEN IF ~hasRefreshToken(us, decoded.userId, token)
            THEN [valid |-> FALSE, expired |-> FALSE, userId |-> 0]
            ELSE [valid |-> TRUE, expired |-> FALSE, userId |-> decoded.userId]
       ELSE [valid |-> FALSE,
             expired |-> (decoded.error = "TokenExpiredError"),
             userId |-> 0]

----------------------------------------------------------------------------
(* Responses of routes/auth                                                *)

\* the request body a response answers: refreshToken, or usernameOrEmail
\* and password
\* an Authorization header is the sequence of its words, the pieces that
\* authHeader.split(' ') yields; << >> is a request without the header
NoHeader == << >>

\* the body fields, the Authorization header and the :id path parameter
Request(refreshToken, usernameOrEmail, password) ==
    [refreshToken |-> refreshToken, usernameOrEmail |-> usernameOrEmail,
     password |-> password, authorization |-> NoHeader, id |-> Empty]

NoRequest == Request(NoToken, Empty, Empty)

Response(op, status, message, accessToken, refreshToken, user) ==
    [op |-> op, status |-> status, message |-> message,
     accessToken |-> accessToken, refreshToken |-> refreshToken,
     user |-> user, list |-> << >>, req |-> NoRequest]

Sent(response, request) == [response EXCEPT !.req = request]

Reply(op, status, message) ==
    Response(op, status, message, NoToken, NoToken, NoUser)

NoResponse == Reply("none", 0, "")

IsSpace(c) == c \in {" ", "\t", "\n"}

\* /^[^\s@]+@[^\s@]+\.[^\s@]+$/
emailRegex(s) ==
    \E i \in 1..Len(s) : \E j \in 1..Len(s) :
        /\ i > 1 /\ s[i] = "@"
        /\ j > i + 1 /\ j < Len(s) /\ s[j] = "."
        /\ \A k \in (1..Len(s)) \ {i} : s[k] /= "@" /\ ~IsSpace(s[k])

\* the length of the password left unchecked
registerValidationNoPassword(username, email, password) ==
    IF username = Empty \/ email = Empty \/ password = Empty
    THEN "Please provide username, email and password"
    ELSE IF Len(username) < MinUsernameLen
    THEN "Username must be at least 3 characters long"
    ELSE IF ~emailRegex(email)
    THEN "Please provide a valid email address"
    ELSE ""

\* the message of the first failing check of POST /register, "" if none
registerValidation(username, email, password) ==
    IF username = Empty \/ email = Empty \/ password = Empty
    THEN "Please provide username, email and password"
    ELSE IF Len(username) < MinUsernameLen
    THEN "Username must be at least 3 characters long"
    ELSE IF Len(password) < MinPasswordLen
    THEN "Password must be at least 6 characters long"
    ELSE IF ~emailRegex(email)
    THEN "Please provide a valid email address"
    ELSE ""

loginInvalidUser == Reply("login", 401, "Invalid credentials")

\* a wrong password told apart from an unknown user
loginWrongPassword == Reply("login", 401, "Incorrect password")

loginInvalidPassword == Reply("login", 401, "Invalid credentials")

\* the expired flag ignored
refreshTokenHandlerNoExpired(us, refreshToken, t) ==
    IF refreshToken = NoToken
    THEN Reply("refresh", 400, "Refresh token is required")
    ELSE LET v == verifyRefreshToken(us, refreshToken, t)
         IN IF ~v.valid
            THEN Reply("refresh", 401, "Invalid refresh token")
            ELSE Response("refresh", 200, "success",
                          generateAccessToken(v.userId, t), NoToken, NoUser)

\* POST /refresh-token: no state is written
refreshTokenHandler(us, refreshToken, t) ==
    IF refreshToken = NoToken
    THEN Reply("refresh", 400, "Refresh token is required")
    ELSE LET v == verifyRefreshToken(us, refreshToken, t)
         IN IF ~v.valid
            THEN IF v.expired
                 THEN Reply("refresh", 401,
                        "Refresh token has expired. Please login again.")
                 ELSE Reply("refresh", 401, "Invalid refresh token")
            ELSE Response("refresh", 200, "success",
                          generateAccessToken(v.userId, t), NoToken, NoUser)

\* a logout that removes whatever token names a user (jwt.decode in place
\* of the verification)
logoutHandlerDecode(us, refreshToken, t) ==
    IF refreshToken = NoToken
    THEN [resp |-> Reply("logout", 400, "Refresh token is required"),
          users |-> us]
    ELSE [resp |-> Reply("logout", 200, "Logged out successfully"),
          users |-> IF refreshToken.form = "jwt"
                    THEN removeRefreshToken(us, refreshToken.userId,
                                            refreshToken)
                    ELSE us]

\* a logout that reports a token it cannot verify
logoutHandlerStrict(us, refreshToken, t) ==
    IF refreshToken = NoToken
    THEN [resp |-> Reply("logout", 400, "Refresh token is required"),
          users |-> us]
    ELSE LET v == verifyRefreshToken(us, refreshToken, t)
         IN IF v.valid /\ v.userId /= 0
            THEN [resp |-> Reply("logout", 200, "Logged out successfully"),
                  users |-> removeRefreshToken(us, v.userId, refreshToken)]
            ELSE [resp |-> Reply("logout", 401, "Invalid refresh token"),
                  users |-> us]

\* POST /logout: the response and the store it leaves
logoutHandler(us, refreshToken, t) ==
    IF refreshToken = NoToken
    THEN [resp |-> Reply("logout", 400, "Refresh token is required"),
          users |-> us]
    ELSE LET v == verifyRefreshToken(us, refreshToken, t)
         IN [resp |-> Reply("logout", 200, "Logged out successfully"),
             users |-> IF v.valid /\ v.userId /= 0
                       THEN removeRefreshToken(us, v.userId, refreshToken)
                       ELSE us]

\* the refresh token minted and stored before the password is compared
loginFinishHandlerEager(us, u, password, t) ==
    LET accessToken == generateAccessToken(us[u].id, t)
        g == generateRefreshToken(us, us[u].id, t)
    IN IF ~comparePassword(password, us[u].password)
       THEN [resp |-> loginInvalidPassword, users |-> g.users,
             minted |-> FALSE]
       ELSE [resp |-> Response("login", 200, "Login successful",
                               accessToken, g.token, PublicView(us[u])),
             users |-> g.users, minted |-> TRUE]

\* POST /login after the await: tokens are minted for the user object found
\* before the await
loginFinishHandler(us, u, password, t) ==
    IF ~comparePassword(password, us[u].password)
    THEN [resp |-> loginInvalidPassword, users |-> us, minted |-> FALSE]
    ELSE LET accessToken == generateAccessToken(us[u].id, t)
             g == generateRefreshToken(us, us[u].id, t)
         IN [resp |-> Response("login", 200, "Login successful",
                               accessToken, g.token, PublicView(us[u])),
             users |-> g.users, minted |-> TRUE]

----------------------------------------------------------------------------
(* middleware/auth and routes/users                                        *)

\* authHeader.startsWith('Bearer ')
startsWithBearer(authHeader) ==
    Len(authHeader) >= 2 /\ authHeader[1] = "Bearer"

\* an expired token reported like any other token that does not verify
authenticateNoExpired(us, op, authHeader, t) ==
    IF authHeader = NoHeader \/ ~startsWithBearer(authHeader)
    THEN [next |-> FALSE, user |-> NoUser,
          res |-> Reply(op, 401,
                        "Authentication required. No token provided.")]
    ELSE LET token == authHeader[2]
             v == verifyAccessToken(token, t)
         IN IF ~v.valid
            THEN [next |-> FALSE, user |-> NoUser,
                  res |-> Reply(op, 401, "Invalid token.")]
            ELSE LET u == findById(us, v.userId)
                 IN IF u = 0
                    THEN [next |-> FALSE, user |-> NoUser,
                          res |-> Reply(op, 401, "User not found.")]
                    ELSE [next |-> TRUE, res |-> NoResponse,
                          user |-> [id |-> us[u].id,
                                    username |-> us[u].username,
                                    email |-> us[u].email]]

\* a guard that also asks for the refresh token of the session in the
\* list of the user
authenticateSession(us, op, authHeader, t) ==
    IF authHeader = NoHeader \/ ~startsWithBearer(authHeader)
    THEN [next |-> FALSE, user |-> NoUser,
          res |-> Reply(op, 401,
                        "Authentication required. No token provided.")]
    ELSE LET token == authHeader[2]
             v == verifyAccessToken(token, t)
         IN IF ~v.valid
            THEN IF v.expired
                 THEN [next |-> FALSE, user |-> NoUser,
                       res |-> Reply(op, 401,
                                "Token has expired. Please refresh your token.")]
                 ELSE [next |-> FALSE, user |-> NoUser,
                       res |-> Reply(op, 401, "Invalid token.")]
            ELSE LET u == findById(us, v.userId)
                 IN IF u = 0
                    THEN [next |-> FALSE, user |-> NoUser,
                          res |-> Reply(op, 401, "User not found.")]
                    ELSE IF \A k \in 1..Len(us[u].refreshTokens) :
                              us[u].refreshTokens[k].iat /= token.iat
                    THEN [next |-> FALSE, user |-> NoUser,
                          res |-> Reply(op, 401, "Invalid token.")]
                    ELSE [next |-> TRUE, res |-> NoResponse,
                          user |-> [id |-> us[u].id,
                                    username |-> us[u].username,
                                    email |-> us[u].email]]

\* authenticate: either the 401 it sends, or next() with req.user
authenticate(us, op, authHeader, t) ==
    IF authHeader = NoHeader \/ ~startsWithBearer(authHeader)
    THEN [next |-> FALSE, user |-> NoUser,
          res |-> Reply(op, 401,
                        "Authentication required. No token provided.")]
    ELSE LET token == authHeader[2]
             v == verifyAccessToken(token, t)
         IN IF ~v.valid
            THEN IF v.expired
                 THEN [next |-> FALSE, user |-> NoUser,
                       res |-> Reply(op, 401,
                                "Token has expired. Please refresh your token.")]
                 ELSE [next |-> FALSE, user |-> NoUser,
                       res |-> Reply(op, 401, "Invalid token.")]
            ELSE LET u == findById(us, v.userId)
                 IN IF u = 0
                    THEN [next |-> FALSE, user |-> NoUser,
                          res |-> Reply(op, 401, "User not found.")]
                    ELSE [next |-> TRUE, res |-> NoResponse,
                          user |-> [id |-> us[u].id,
                                    username |-> us[u].username,
                                    email |-> us[u].email]]

\* the records of the store handed out as they are
getAllRaw(us) == us

\* User.getAll
getAll(us) ==
    [i \in 1..Len(us) |->
       [id |-> us[i].id, username |-> us[i].username, email |-> us[i].email]]

\* the value of a decimal digit, -1 for any other character
Digit(c) ==
    CASE c = "0" -> 0 [] c = "1" -> 1 [] c = "2" -> 2 [] c = "3" -> 3
      [] c = "4" -> 4 [] c = "5" -> 5 [] c = "6" -> 6 [] c = "7" -> 7
      [] c = "8" -> 8 [] c = "9" -> 9 [] OTHER -> -1

\* stands for NaN: equal to no id
NaN == -1000000

RECURSIVE Digits(_, _, _)
\* the number read from the digits at the head of s, after acc has been
\* read from seen digits; NaN when no digit is read at all
Digits(s, acc, seen) ==
    IF s = << >> \/ Digit(Head(s)) < 0
    THEN IF seen > 0 THEN acc ELSE NaN
    ELSE Digits(Tail(s), 10 * acc + Digit(Head(s)), seen + 1)

RECURSIVE parseInt(_)
\* parseInt of a string: leading white space skipped, an optional sign, the
\* longest prefix of digits, NaN if there is none
parseInt(s) ==
    IF s = << >> THEN NaN
    ELSE IF IsSpace(Head(s)) THEN parseInt(Tail(s))
    ELSE IF Head(s) = "-"
    THEN LET n == Digits(Tail(s), 0, 0) IN IF n = NaN THEN NaN ELSE 0 - n
    ELSE IF Head(s) = "+" THEN Digits(Tail(s), 0, 0)
    ELSE Digits(s, 0, 0)

\* GET /api/users
usersHandler(us, authHeader, t) ==
    LET a == authenticate(us, "users", authHeader, t)
    IN IF ~a.next THEN a.res
       ELSE [Reply("users", 200, "success") EXCEPT !.list = getAll(us)]

\* GET /api/users/profile
profileHandler(us, authHeader, t) ==
    LET a == authenticate(us, "profile", authHeader, t)
    IN IF ~a.next THEN a.res
       ELSE Response("profile", 200, "success", NoToken, NoToken, a.user)

\* GET /api/users/:id
userByIdHandler(us, authHeader, id, t) ==
    LET a == authenticate(us, "userById", authHeader, t)
    IN IF ~a.next THEN a.res
       ELSE LET u == findById(us, parseInt(id))
            IN IF u = 0
               THEN Reply("userById", 404, "User not found")
               ELSE Response("userById", 200, "success", NoToken, NoToken,
                             [id |-> us[u].id, username |-> us[u].username,
                              email |-> us[u].email])

----------------------------------------------------------------------------
(* utils/googleAI: chat sessions                                           *)

\* 24 * 60 * 60 * 1000 ms, in seconds of the clock
Day == 86400

\* one session id: getChatSession, its timer and getChatHistory each touch
\* the entry of their own id only, so sessions do not affect one another
ChatIds == {"s1"}

Messages == {<<"h", "i">>}

\* how the call to the model ends: result.response.text() returns, or
\* sendMessage rejects, or text() throws
Outcomes == {"reply", "rejected", "blocked"}

\* result.response.text()
ReplyText == <<"o", "k">>

ChatEntry(role, content) == [role |-> role, content |-> content]

\* the value of chatSessions.set(sessionId, {...})
NewSession(t) == [history |-> << >>, lastUsed |-> t]

\* getChatSession: the session object of sessionId, created with its
\* cleanup timer if the map does not hold it, and lastUsed set to the clock
getChatSession(sessions, objs, tms, sessionId, t) ==
    LET made == IF sessions[sessionId] = 0
                THEN [chatSessions |->
                        [sessions EXCEPT ![sessionId] = Len(objs) + 1],
                      chatObjs |-> Append(objs, NewSession(t)),
                      timers |-> tms \cup {[sessionId |-> sessionId,
                                            due |-> t + Day]}]
                ELSE [chatSessions |-> sessions, chatObjs |-> objs,
                      timers |-> tms]
        session == made.chatSessions[sessionId]
    IN [chatSessions |-> made.chatSessions,
        chatObjs |-> [made.chatObjs EXCEPT ![session].lastUsed = t],
        timers |-> made.timers,
        session |-> session]

\* getChatHistory
getChatHistory(sessions, objs, sessionId) ==
    IF sessions[sessionId] = 0 THEN << >>
    ELSE objs[sessions[sessionId]].history

\* the callback of the cleanup timer
cleanup(sessions, objs, sessionId, t) ==
    IF sessions[sessionId] /= 0
         /\ t - objs[sessions[sessionId]].lastUsed > Day
    THEN [sessions EXCEPT ![sessionId] = 0]
    ELSE sessions

NoChatResult == [error |-> "", text |-> Empty, history |-> << >>]

----------------------------------------------------------------------------
(* Initial state and inputs. The state:                                    *)
(*   users          the users array of models/User                         *)
(*   now            the clock, in seconds (iat and exp are in seconds)     *)
(*   ticks          how often the clock has advanced                       *)
(*   pendingRegs    register requests suspended on bcrypt.hash             *)
(*   pendingLogins  login requests suspended on bcrypt.compare             *)
(*   issued         refresh tokens handed out so far, in issuance order    *)
(*   resp           the response sent last                                 *)
(*   chatSessions   the chatSessions map: session id to session object,    *)
(*                  0 where the map has no entry                           *)
(*   chatObjs       the session objects created so far; a call suspended   *)
(*                  on the model keeps its object when the map drops it    *)
(*   timers         the cleanup timers set and not yet gone off            *)
(*   pendingChats   calls suspended on session.chat.sendMessage            *)
(*   chatOut        the value the chat functions returned or threw last    *)

Init ==
    /\ users = << >>
    /\ now = 0
    /\ ticks = 0
    /\ pendingRegs = EmptyBag
    /\ pendingLogins = EmptyBag
    /\ issued = << >>
    /\ resp = NoResponse
    /\ chatSessions = [sessionId \in ChatIds |-> 0]
    /\ chatObjs = << >>
    /\ timers = {}
    /\ pendingChats = EmptyBag
    /\ chatOut = NoChatResult

\* what a client can present as a refresh token: the tokens it was given,
\* the payload of the latest one signed as an access token or by a foreign
\* key, junk, nothing
AsAccess(token) ==
    [token EXCEPT !.key = AccessSecret, !.exp = token.iat + AccessTTL]

Forged(token) == [token EXCEPT !.key = "attacker"]

TokenInputs ==
    Range(issued)
      \cup (IF issued = << >> THEN {}
            ELSE {AsAccess(issued[Len(issued)]), Forged(issued[Len(issued)])})
      \cup {Garbage, NoToken}

\* an access token signed by an earlier run of the server, for a user id
\* the store of this run does not hold
Leftover == generateAccessToken(Len(users) + 1, now)

\* what a client can present as a bearer token: the access tokens of its
\* logins, the access token of the last response, its latest refresh token,
\* a forgery, junk, nothing, a token of an earlier run
BearerInputs ==
    {AsAccess(token) : token \in Range(issued)}
      \cup {resp.accessToken}
      \cup (IF issued = << >> THEN {}
            ELSE {issued[Len(issued)], Forged(AsAccess(issued[Len(issued)]))})
      \cup {Garbage, NoToken, Leftover}

Headers ==
    {NoHeader, <<"Basic", Garbage>>}
      \cup {<<"Bearer", token>> : token \in BearerInputs}

IdParams == {<<"1">>, <<"2", "x">>, <<"x">>}

\* the request of a guarded route
GuardedRequest(authHeader, id) ==
    [NoRequest EXCEPT !.authorization = authHeader, !.id = id]

----------------------------------------------------------------------------
(* Actions                                                                 *)

\* POST /register up to the await in User.create
RegisterBegin(username, email, password) ==
    LET invalid == registerValidation(username, email, password)
    IN /\ IF invalid /= ""
          THEN /\ resp' = Reply("register", 400, invalid)
               /\ UNCHANGED pendingRegs
          ELSE IF existingUser(users, username, email) /= 0
          THEN /\ resp' = Reply("register", 400,
                                  "Username or email already in use")
               /\ UNCHANGED pendingRegs
          ELSE /\ pendingRegs' = pendingRegs (+)
                     SetToBag({[username |-> username, email |-> email,
                                password |-> password]})
               /\ UNCHANGED resp
       /\ UNCHANGED <<users, now, ticks, pendingLogins, issued>>
       /\ UNCHANGED chatVars

\* the id counted with the registrations still waiting
RegisterFinishEarlyId(r) ==
    /\ BagIn(r, pendingRegs)
    /\ LET id == Len(users) + BagCardinality(pendingRegs)
           user == User(id, r.username, r.email, bcryptHash(r.password))
       IN /\ users' = Append(users, user)
          /\ resp' = Response("register", 201, "User registered successfully",
                              NoToken, NoToken, PublicView(user))
    /\ pendingRegs' = pendingRegs (-) SetToBag({r})
    /\ UNCHANGED <<now, ticks, pendingLogins, issued>>
    /\ UNCHANGED chatVars

\* User.create after the await, and the 201 response
RegisterFinish(r) ==
    /\ BagIn(r, pendingRegs)
    /\ LET id == Len(users) + 1
           user == User(id, r.username, r.email, bcryptHash(r.password))
       IN /\ users' = Append(users, user)
          /\ resp' = Response("register", 201, "User registered successfully",
                              NoToken, NoToken, PublicView(user))
    /\ pendingRegs' = pendingRegs (-) SetToBag({r})
    /\ UNCHANGED <<now, ticks, pendingLogins, issued>>
    /\ UNCHANGED chatVars

\* POST /login up to the await on User.comparePassword
LoginBegin(usernameOrEmail, password) ==
    /\ IF usernameOrEmail = Empty \/ password = Empty
       THEN /\ resp' = Sent(Reply("login", 400,
                                 "Please provide username/email and password"),
                         Request(NoToken, usernameOrEmail, password))
            /\ UNCHANGED pendingLogins
       ELSE LET u == findByCredentials(users, usernameOrEmail)
            IN IF u = 0
               THEN /\ resp' = Sent(loginInvalidUser,
                                     Request(NoToken, usernameOrEmail,
                                             password))
                    /\ UNCHANGED pendingLogins
               ELSE /\ pendingLogins' = pendingLogins (+)
                          SetToBag({[user |-> u,
                                     usernameOrEmail |-> usernameOrEmail,
                                     password |-> password]})
                    /\ UNCHANGED resp
    /\ UNCHANGED <<users, now, ticks, pendingRegs, issued>>
    /\ UNCHANGED chatVars

\* a login that writes back a list of its own, losing what was stored
\* while it waited
LoginFinishOverwrite(p) ==
    /\ BagIn(p, pendingLogins)
    /\ LET h == loginFinishHandler(users, p.user, p.password, now)
       IN /\ resp' = Sent(h.resp,
                          Request(NoToken, p.usernameOrEmail, p.password))
          /\ users' = IF h.minted
                      THEN [users EXCEPT ![p.user].refreshTokens =
                                           <<h.resp.refreshToken>>]
                      ELSE users
          /\ issued' = IF h.minted THEN Append(issued, h.resp.refreshToken)
                       ELSE issued
    /\ pendingLogins' = pendingLogins (-) SetToBag({p})
    /\ UNCHANGED <<now, ticks, pendingRegs>>
    /\ UNCHANGED chatVars

\* POST /login after the await
LoginFinish(p) ==
    /\ BagIn(p, pendingLogins)
    /\ LET h == loginFinishHandler(users, p.user, p.password, now)
       IN /\ resp' = Sent(h.resp,
                          Request(NoToken, p.usernameOrEmail, p.password))
          /\ users' = h.users
          /\ issued' = IF h.minted THEN Append(issued, h.resp.refreshToken)
                       ELSE issued
    /\ pendingLogins' = pendingLogins (-) SetToBag({p})
    /\ UNCHANGED <<now, ticks, pendingRegs>>
    /\ UNCHANGED chatVars

\* a refresh that rotates: the presented token is replaced by a new one
RefreshRotating(refreshToken) ==
    LET r == refreshTokenHandler(users, refreshToken, now)
    IN /\ IF r.status = 200
          THEN LET g == generateRefreshToken(
                          removeRefreshToken(users, refreshToken.userId,
                                             refreshToken),
                          refreshToken.userId, now)
               IN /\ users' = g.users
                  /\ resp' = Sent([r EXCEPT !.refreshToken = g.token],
                                  Request(refreshToken, Empty, Empty))
          ELSE /\ users' = users
               /\ resp' = Sent(r, Request(refreshToken, Empty, Empty))
       /\ UNCHANGED <<now, ticks, pendingRegs, pendingLogins, issued>>
       /\ UNCHANGED chatVars

\* POST /refresh-token
Refresh(refreshToken) ==
    /\ resp' = Sent(refreshTokenHandler(users, refreshToken, now),
                    Request(refreshToken, Empty, Empty))
    /\ UNCHANGED <<users, now, ticks, pendingRegs, pendingLogins, issued>>
    /\ UNCHANGED chatVars

\* POST /logout
Logout(refreshToken) ==
    /\ LET h == logoutHandler(users, refreshToken, now)
       IN /\ resp' = Sent(h.resp, Request(refreshToken, Empty, Empty))
          /\ users' = h.users
    /\ UNCHANGED <<now, ticks, pendingRegs, pendingLogins, issued>>
    /\ UNCHANGED chatVars

\* POST /logout as the router mounts it: the handler alone, no middleware
\* before it, so the Authorization header of the request is never read
LogoutRequest(authHeader, refreshToken) == Logout(refreshToken)

\* GET /api/users
Users(authHeader) ==
    /\ resp' = Sent(usersHandler(users, authHeader, now),
                    GuardedRequest(authHeader, Empty))
    /\ UNCHANGED <<users, now, ticks, pendingRegs, pendingLogins, issued>>
    /\ UNCHANGED chatVars

\* GET /api/users/profile
Profile(authHeader) ==
    /\ resp' = Sent(profileHandler(users, authHeader, now),
                    GuardedRequest(authHeader, Empty))
    /\ UNCHANGED <<users, now, ticks, pendingRegs, pendingLogins, issued>>
    /\ UNCHANGED chatVars

\* GET /api/users/:id
UserById(authHeader, id) ==
    /\ resp' = Sent(userByIdHandler(users, authHeader, id, now),
                    GuardedRequest(authHeader, id))
    /\ UNCHANGED <<users, now, ticks, pendingRegs, pendingLogins, issued>>
    /\ UNCHANGED chatVars

\* the clock advances by d seconds
Tick(d) ==
    /\ now' = now + d
    /\ ticks' = ticks + 1
    /\ UNCHANGED <<users, pendingRegs, pendingLogins, issued, resp>>
    /\ UNCHANGED chatVars

\* generateChatSessionResponse up to the await on session.chat.sendMessage
ChatSessionBegin(sessionId, message) ==
    /\ LET g == getChatSession(chatSessions, chatObjs, timers, sessionId, now)
       IN /\ chatSessions' = g.chatSessions
          /\ chatObjs' = g.chatObjs
          /\ timers' = g.timers
          /\ pendingChats' = pendingChats (+)
                SetToBag({[session |-> g.session, message |-> message]})
    /\ UNCHANGED chatOut
    /\ UNCHANGED authVars

\* a call that fails records the message of the user all the same
ChatSessionFinishHalf(p, outcome) ==
    /\ BagIn(p, pendingChats)
    /\ IF outcome = "reply"
       THEN LET history == chatObjs[p.session].history
                            \o <<ChatEntry("user", p.message),
                                 ChatEntry("model", ReplyText)>>
            IN /\ chatObjs' = [chatObjs EXCEPT ![p.session].history = history]
               /\ chatOut' = [error |-> "", text |-> ReplyText,
                              history |-> history]
       ELSE /\ chatObjs' = [chatObjs EXCEPT ![p.session].history =
                              Append(@, ChatEntry("user", p.message))]
            /\ chatOut' = [NoChatResult EXCEPT !.error = outcome]
    /\ pendingChats' = pendingChats (-) SetToBag({p})
    /\ UNCHANGED <<chatSessions, timers>>
    /\ UNCHANGED authVars

\* generateChatSessionResponse after the await: the two entries are pushed
\* onto the session object fetched before it, or the error is thrown on
ChatSessionFinish(p, outcome) ==
    /\ BagIn(p, pendingChats)
    /\ IF outcome = "reply"
       THEN LET history == chatObjs[p.session].history
                            \o <<ChatEntry("user", p.message),
                                 ChatEntry("model", ReplyText)>>
            IN /\ chatObjs' = [chatObjs EXCEPT ![p.session].history = history]
               /\ chatOut' = [error |-> "", text |-> ReplyText,
                              history |-> history]
       ELSE /\ chatOut' = [NoChatResult EXCEPT !.error = outcome]
            /\ UNCHANGED chatObjs
    /\ pendingChats' = pendingChats (-) SetToBag({p})
    /\ UNCHANGED <<chatSessions, timers>>
    /\ UNCHANGED authVars

\* getChatHistory, as GET /chat/history/:sessionId calls it
GetChatHistory(sessionId) ==
    /\ chatOut' = [NoChatResult EXCEPT
                     !.history = getChatHistory(chatSessions, chatObjs,
                                                sessionId)]
    /\ UNCHANGED <<chatSessions, chatObjs, timers, pendingChats>>
    /\ UNCHANGED authVars

\* the cleanup timer of a session goes off, at its due time or later
Cleanup(tm) ==
    /\ tm \in timers
    /\ now >= tm.due
    /\ chatSessions' = cleanup(chatSessions, chatObjs, tm.sessionId, now)
    /\ timers' = timers \ {tm}
    /\ UNCHANGED <<chatObjs, pendingChats, chatOut>>
    /\ UNCHANGED authVars

----------------------------------------------------------------------------
(* Specifications                                                          *)

InFlightUsers == Len(users) + BagCardinality(pendingRegs)

InFlightLogins == Len(issued) + BagCardinality(pendingLogins)

\* the token lifecycle: the accounts register, log in, refresh and log out
\* while the clock crosses the expiry of the refresh tokens
Next ==
    \/ \E a \in Accounts :
         /\ InFlightUsers < MaxUsers
         /\ RegisterBegin(a.username, a.email, a.password)
    \/ \E r \in BagToSet(pendingRegs) : RegisterFinish(r)
    \/ \E usernameOrEmail \in SessionNames : \E password \in LoginPasswords :
         /\ InFlightLogins < MaxLogins
         /\ BagCardinality(pendingLogins) < MaxPendingLogins
         /\ LoginBegin(usernameOrEmail, password)
    \/ \E p \in BagToSet(pendingLogins) : LoginFinish(p)
    \/ \E refreshToken \in TokenInputs : Refresh(refreshToken)
    \/ \E refreshToken \in TokenInputs : Logout(refreshToken)
    \/ \E d \in TickSteps : ticks < MaxTicks /\ Tick(d)

Spec == Init /\ [][Next]_vars

\* the credential store: any registration, concurrent ones included, and
\* the logins that follow
NextStore ==
    \/ \E username \in Usernames : \E email \in Emails :
         \E password \in Passwords :
           /\ InFlightUsers < MaxStoreUsers
           /\ RegisterBegin(username, email, password)
    \/ \E r \in BagToSet(pendingRegs) : RegisterFinish(r)
    \/ \E usernameOrEmail \in LoginNames : \E password \in LoginPasswords :
         /\ InFlightLogins < MaxStoreLogins
         /\ LoginBegin(usernameOrEmail, password)
    \/ \E p \in BagToSet(pendingLogins) : LoginFinish(p)

SpecStore == Init /\ [][NextStore]_vars

\* POST /register alone, with every request of the model, requests in
\* flight together included
NextRegister ==
    \/ \E username \in Usernames : \E email \in Emails :
         \E password \in Passwords :
           /\ InFlightUsers < MaxRegUsers
           /\ RegisterBegin(username, email, password)
    \/ \E r \in BagToSet(pendingRegs) : RegisterFinish(r)

SpecRegister == Init /\ [][NextRegister]_vars

\* one user logging in past the capacity of the refreshTokens list
NextEvict ==
    \/ /\ InFlightUsers < 1
       /\ RegisterBegin(Ann, MailA, Secret)
    \/ \E r \in BagToSet(pendingRegs) : RegisterFinish(r)
    \/ /\ InFlightLogins < MaxEvictLogins
       /\ BagCardinality(pendingLogins) < MaxPendingLogins
       /\ LoginBegin(Ann, Secret)
    \/ \E p \in BagToSet(pendingLogins) : LoginFinish(p)
    \/ \E refreshToken \in TokenInputs : Refresh(refreshToken)
    \/ \E refreshToken \in TokenInputs : Logout(refreshToken)
    \/ \E d \in {1, AccessTTL} : ticks < MaxEvictTicks /\ Tick(d)

SpecEvict == Init /\ [][NextEvict]_vars

\* the same with no logout at all
NextLogins ==
    \/ /\ InFlightUsers < 1
       /\ RegisterBegin(Ann, MailA, Secret)
    \/ \E r \in BagToSet(pendingRegs) : RegisterFinish(r)
    \/ /\ InFlightLogins < MaxEvictLogins
       /\ BagCardinality(pendingLogins) < MaxPendingLogins
       /\ LoginBegin(Ann, Secret)
    \/ \E p \in BagToSet(pendingLogins) : LoginFinish(p)
    \/ \E refreshToken \in TokenInputs : Refresh(refreshToken)
    \/ ticks < MaxEvictTicks /\ Tick(1)

SpecLogins == Init /\ [][NextLogins]_vars

\* the guarded routes, with the logins and refreshes of one user that
\* supply their tokens, and a clock that can pass the life of an access
\* token
NextGuard ==
    \/ /\ InFlightUsers < 1
       /\ RegisterBegin(Ann, MailA, Secret)
    \/ \E r \in BagToSet(pendingRegs) : RegisterFinish(r)
    \/ \E password \in {Secret, Hunter} :
         /\ InFlightLogins < MaxGuardLogins
         /\ pendingLogins = EmptyBag
         /\ LoginBegin(Ann, password)
    \/ \E p \in BagToSet(pendingLogins) : LoginFinish(p)
    \/ \E refreshToken \in TokenInputs : Refresh(refreshToken)
    \/ \E refreshToken \in TokenInputs : Logout(refreshToken)
    \/ \E authHeader \in Headers : Users(authHeader)
    \/ \E authHeader \in Headers : Profile(authHeader)
    \/ \E authHeader \in Headers : \E id \in IdParams :
         UserById(authHeader, id)
    \/ \E d \in {1, AccessTTL} : ticks < MaxGuardTicks /\ Tick(d)

SpecGuard == Init /\ [][NextGuard]_vars

\* one user whose logins, logouts and refreshes overlap: any number of
\* logins wait on the password comparison while other requests complete
NextInterleave ==
    \/ /\ InFlightUsers < 1
       /\ RegisterBegin(Ann, MailA, Secret)
    \/ \E r \in BagToSet(pendingRegs) : RegisterFinish(r)
    \/ \E usernameOrEmail \in {Ann, MailA} : \E password \in {Secret, Hunter} :
         /\ InFlightLogins < MaxInterLogins
         /\ LoginBegin(usernameOrEmail, password)
    \/ \E p \in BagToSet(pendingLogins) : LoginFinish(p)
    \/ \E refreshToken \in TokenInputs : Refresh(refreshToken)
    \/ \E refreshToken \in TokenInputs : Logout(refreshToken)
    \/ ticks < MaxInterTicks /\ Tick(1)

SpecInterleave == Init /\ [][NextInterleave]_vars

\* two accounts whose sessions run side by side: each logs in, refreshes
\* and reads its profile with the tokens handed out so far
NextIdentity ==
    \/ \E a \in Accounts :
         /\ InFlightUsers < MaxIdUsers
         /\ RegisterBegin(a.username, a.email, a.password)
    \/ \E r \in BagToSet(pendingRegs) : RegisterFinish(r)
    \/ \E usernameOrEmail \in {Ann, MailD} : \E password \in {Secret, Hunter} :
         /\ InFlightLogins < MaxIdLogins
         /\ LoginBegin(usernameOrEmail, password)
    \/ \E p \in BagToSet(pendingLogins) : LoginFinish(p)
    \/ \E refreshToken \in TokenInputs : Refresh(refreshToken)
    \/ \E authHeader \in Headers : Profile(authHeader)

SpecIdentity == Init /\ [][NextIdentity]_vars

\* the chat sessions: messages sent to sessions that are created, used and
\* cleaned up while the clock passes the 24 hours of the timer
NextChat ==
    \/ \E sessionId \in ChatIds : \E message \in Messages :
         /\ chatSessions[sessionId] = 0 => Len(chatObjs) < MaxChatSessions
         /\ BagCardinality(pendingChats) < MaxPendingChats
         /\ chatSessions[sessionId] /= 0 =>
              Len(chatObjs[chatSessions[sessionId]].history)
                < 2 * MaxChatTurns
         /\ ChatSessionBegin(sessionId, message)
    \/ \E p \in BagToSet(pendingChats) : \E outcome \in Outcomes :
         ChatSessionFinish(p, outcome)
    \/ \E sessionId \in ChatIds : GetChatHistory(sessionId)
    \/ \E tm \in timers : Cleanup(tm)
    \/ \E d \in {1, Day} : ticks < MaxChatTicks /\ Tick(d)

SpecChat == Init /\ [][NextChat]_vars

\* the same with the scheduling of the event loop: a timer that is due goes
\* off, a call to the model settles, and time passes
SpecChatFair ==
    /\ SpecChat
    /\ WF_vars(\E tm \in timers : Cleanup(tm))
    /\ WF_vars(\E p \in BagToSet(pendingChats) :
                     \E outcome \in Outcomes : ChatSessionFinish(p, outcome))
    /\ WF_vars(\E d \in {1, Day} : ticks < MaxChatTicks /\ Tick(d))

----------------------------------------------------------------------------
(* Claims                                                                  *)

\* C1: in every reachable state each user's refreshTokens list holds at
\* most 5 entries.
RefreshTokensBounded ==
    \A i \in 1..Len(users) : Len(users[i].refreshTokens) <= MaxRefreshTokens

\* a full list after more logins than the list can hold
RefreshTokensOverflowed ==
    /\ Len(issued) > MaxRefreshTokens
    /\ \E i \in 1..Len(users) : Len(users[i].refreshTokens) = MaxRefreshTokens

\* T is signed with the refresh key, unexpired at t, and stored in the
\* refreshTokens list of the user it names
Accepted(us, T, t) ==
    /\ T.form = "jwt" /\ T.key = RefreshSecret
    /\ t < T.exp
    /\ \E i \in 1..Len(us) :
         us[i].id = T.userId /\ T \in Range(us[i].refreshTokens)

\* T is well formed, signed with the refresh key and unexpired, but stored
\* in no list of the user it names
Revoked(us, T, t) ==
    /\ T.form = "jwt" /\ T.key = RefreshSecret
    /\ t < T.exp
    /\ ~\E i \in 1..Len(us) :
         us[i].id = T.userId /\ T \in Range(us[i].refreshTokens)

\* the step is POST /refresh-token, or POST /logout, answering request T
Refreshed(T) == T = resp'.req.refreshToken /\ Refresh(T)

LoggedOut(T) == T = resp'.req.refreshToken /\ Logout(T)

\* C2: refresh(T) answers 200 with an access token exactly when T is signed
\* with the refresh key, unexpired and stored for the user it names; in
\* every other case it fails and carries no access token.
RefreshIffAccepted ==
    [][resp'.op = "refresh" =>
         LET T == resp'.req.refreshToken
         IN Refreshed(T) =>
              /\ (resp'.status = 200) <=> Accepted(users, T, now)
              /\ resp'.status = 200 =>
                   /\ resp'.accessToken.form = "jwt"
                   /\ resp'.accessToken.key = AccessSecret
                   /\ resp'.accessToken.userId = T.userId
              /\ resp'.status /= 200 =>
                   resp'.status >= 400 /\ resp'.accessToken = NoToken]_vars

\* a refresh succeeded while another token that was handed out is refused
RefreshAcceptedAndRefused ==
    /\ resp.op = "refresh" /\ resp.status = 200
    /\ \E t \in Range(issued) : Revoked(users, t, now)

\* C3: a successful refresh(T) leaves T accepted, so it can be repeated;
\* logout(T) of an accepted T leaves T rejected by the next refresh.
RefreshRepeatsUntilLogout ==
    [][resp'.op \in {"refresh", "logout"} =>
         LET T == resp'.req.refreshToken
         IN /\ (Refreshed(T) /\ resp'.status = 200)
                 => refreshTokenHandler(users', T, now').status = 200
            /\ (LoggedOut(T) /\ refreshTokenHandler(users, T, now).status = 200)
                 => refreshTokenHandler(users', T, now').status = 401]_vars

\* a logout has just removed a token that is still unexpired
LoggedOutTokenRefused ==
    /\ resp.op = "logout" /\ resp.status = 200
    /\ resp.req.refreshToken \in Range(issued)
    /\ Revoked(users, resp.req.refreshToken, now)

refreshInvalid == Reply("refresh", 401, "Invalid refresh token")

refreshExpired ==
    Reply("refresh", 401, "Refresh token has expired. Please login again.")

\* the response without the echo of the request
Body(response) == Sent(response, NoRequest)

\* C4 as claimed: a well-formed, unexpired refresh token that is not in its
\* subject's list is answered differently from a token with a bad signature
\* or a malformed one, and differently from an expired one.
RevokedDistinctFromInvalid ==
    [][resp'.op = "refresh" =>
         LET T == resp'.req.refreshToken
         IN (Refreshed(T) /\ Revoked(users, T, now)) =>
              /\ Body(resp') /= refreshTokenHandler(users, Garbage, now)
              /\ Body(resp') /= refreshTokenHandler(users, Forged(T), now)
              /\ Body(resp') /= refreshExpired]_vars

\* C4 as the code has it: refresh has two failure outcomes for a supplied
\* token. A token signed with the refresh key whose expiry has passed is
\* answered "expired"; a well-formed, unexpired token that is not in its
\* subject's list is answered exactly as a malformed or wrongly signed one,
\* "Invalid refresh token", and the two answers differ.
RevokedAnsweredAsInvalid ==
    [][resp'.op = "refresh" =>
         LET T == resp'.req.refreshToken
         IN Refreshed(T) =>
              /\ Revoked(users, T, now) => Body(resp') = refreshInvalid
              /\ (T /= NoToken /\ (T.form /= "jwt" \/ T.key /= RefreshSecret))
                   => Body(resp') = refreshInvalid
              /\ (T.form = "jwt" /\ T.key = RefreshSecret /\ now >= T.exp)
                   => Body(resp') = refreshExpired
              /\ refreshInvalid /= refreshExpired]_vars

\* a refresh of a revoked token has been answered
RevokedTokenRefreshed ==
    /\ resp.op = "refresh" /\ resp.status = 401
    /\ Revoked(users, resp.req.refreshToken, now)

\* the refresh tokens handed to the user with this id, oldest first
IssuedTo(id) == SelectSeq(issued, LAMBDA t : t.userId = id)

LastN(s, n) == IF Len(s) <= n THEN s ELSE SubSeq(s, Len(s) - n + 1, Len(s))

\* C5 as claimed (checked where no logout happens): a user's list is the 5
\* refresh tokens issued last, in issuance order, and every token issued
\* before those is rejected by refresh.
EvictedTokenRejected ==
    \A i \in 1..Len(users) :
        LET mine == IssuedTo(users[i].id)
        IN /\ users[i].refreshTokens = LastN(mine, MaxRefreshTokens)
           /\ \A k \in 1..(Len(mine) - MaxRefreshTokens) :
                refreshTokenHandler(users, mine[k], now).status /= 200

\* C6: a successful refresh(T) returns an access token and no refresh token
\* and leaves every user's refreshTokens list as it was.
RefreshKeepsStore ==
    [][resp'.op = "refresh" =>
         LET T == resp'.req.refreshToken
         IN (Refreshed(T) /\ resp'.status = 200) =>
              /\ users' = users
              /\ resp'.refreshToken = NoToken
              /\ resp'.accessToken = generateAccessToken(T.userId, now)
              /\ hasRefreshToken(users', T.userId, T)]_vars

\* a stored token has been refreshed successfully
StoredTokenRefreshed ==
    /\ resp.op = "refresh" /\ resp.status = 200
    /\ hasRefreshToken(users, resp.req.refreshToken.userId,
                       resp.req.refreshToken)

logoutSuccess == Reply("logout", 200, "Logged out successfully")

\* C7 as claimed: every logout is answered with success, and a second
\* logout(T) leaves the store as the first left it.
LogoutAlwaysSucceeds ==
    [][resp'.op = "logout" =>
         LET T == resp'.req.refreshToken
         IN LoggedOut(T) =>
              /\ resp'.status = 200
              /\ logoutHandler(users', T, now').users = users']_vars

\* C7 as the code has it: logout answers success for every non-empty
\* refresh token (valid, expired, malformed, unknown or already removed);
\* a request whose refreshToken is missing or empty is answered 400 and
\* changes nothing; a second logout(T) is answered as the first and leaves
\* the store as the first left it.
LogoutSucceedsForSuppliedToken ==
    [][resp'.op = "logout" =>
         LET T == resp'.req.refreshToken
             again == logoutHandler(users', T, now')
         IN LoggedOut(T) =>
              /\ T /= NoToken => Body(resp') = logoutSuccess
              /\ T = NoToken => resp'.status = 400 /\ users' = users
              /\ again.users = users'
              /\ again.resp = Body(resp')]_vars

\* a logout with an expired token that is still stored was answered success
ExpiredTokenLoggedOut ==
    /\ resp.op = "logout" /\ resp.status = 200
    /\ resp.req.refreshToken.key = RefreshSecret
    /\ now >= resp.req.refreshToken.exp
    /\ hasRefreshToken(users, resp.req.refreshToken.userId,
                       resp.req.refreshToken)

invalidCredentials == Reply("login", 401, "Invalid credentials")

\* C8: a login naming no user and a login with a wrong password for a known
\* user are answered with the same 401 "Invalid credentials" body, and
\* neither changes any refreshTokens list.
LoginFailuresIdentical ==
    [][resp'.op = "login" =>
         LET n == resp'.req.usernameOrEmail
             pw == resp'.req.password
         IN /\ (/\ n /= Empty /\ pw /= Empty
                 /\ findByCredentials(users, n) = 0
                 /\ LoginBegin(n, pw))
                   => Body(resp') = invalidCredentials /\ users' = users
            /\ \A p \in BagToSet(pendingLogins) :
                 (/\ ~comparePassword(p.password, users[p.user].password)
                  /\ LoginFinish(p))
                    => Body(resp') = invalidCredentials /\ users' = users]_vars

\* a login with a wrong password for a registered name has been answered
WrongPasswordAnswered ==
    /\ resp.op = "login" /\ resp.status = 401
    /\ findByCredentials(users, resp.req.usernameOrEmail) /= 0

\* no two stored users share a username or an e-mail
UniqueUsers ==
    \A i \in 1..Len(users) : \A j \in 1..Len(users) :
        i /= j => /\ users[i].username /= users[j].username
                  /\ users[i].email /= users[j].email

\* C9 as claimed: a login with the username and password a user registered
\* with succeeds and returns the public view of that user. Stated for
\* stores whose usernames and e-mails are unique, so that a violation does
\* not rest on two concurrent registrations of one name.
RegisteredUserCanLogin ==
    [][resp'.op = "login" =>
         \A p \in BagToSet(pendingLogins) :
           \A i \in 1..Len(users) :
             (/\ UniqueUsers
              /\ users[i].username = p.usernameOrEmail
              /\ comparePassword(p.password, users[i].password)
              /\ LoginFinish(p))
                => /\ resp'.status = 200
                   /\ resp'.user = PublicView(users[i])]_vars

\* C10 as claimed: in every reachable state, register requests in flight
\* included, no two stored users share a username and no two an e-mail.
UsersStayUnique == UniqueUsers

\* the request names a stored user: by its username, or by its e-mail
Duplicate(us, username, email) ==
    \E i \in 1..Len(us) : us[i].username = username \/ us[i].email = email

\* every field present, username of 3 characters or more, password of 6 or
\* more, e-mail of the shape local@domain.tld
WellFormed(username, email, password) ==
    /\ username /= Empty /\ email /= Empty /\ password /= Empty
    /\ Len(username) >= MinUsernameLen
    /\ Len(password) >= MinPasswordLen
    /\ emailRegex(email)

\* the register requests of the model
RegisterRequests ==
    [username : Usernames, email : Emails, password : Passwords]

alreadyExists == Reply("register", 400, "Username or email already in use")

\* C11 as claimed: a register request whose username or e-mail is that of a
\* stored user is answered AlreadyExists whatever its other fields are, and
\* stores nothing.
DuplicateAlwaysAlreadyExists ==
    [][\A r \in RegisterRequests :
         (/\ Duplicate(users, r.username, r.email)
          /\ RegisterBegin(r.username, r.email, r.password))
            => /\ resp' = alreadyExists
               /\ users' = users
               /\ pendingRegs' = pendingRegs]_vars

\* C11: a register request whose username or e-mail is that of a stored
\* user is answered 400 and stores nothing; the answer is AlreadyExists when
\* the request passes the field checks, and the message of the failed field
\* check otherwise.
DuplicateRejected ==
    [][\A r \in RegisterRequests :
         (/\ Duplicate(users, r.username, r.email)
          /\ RegisterBegin(r.username, r.email, r.password))
            => /\ resp'.status = 400
               /\ WellFormed(r.username, r.email, r.password)
                    <=> resp' = alreadyExists
               /\ users' = users
               /\ pendingRegs' = pendingRegs]_vars

\* a duplicate has been answered AlreadyExists
DuplicateAnswered ==
    /\ resp = alreadyExists
    /\ Len(users) >= 1

GuardedOps == {"users", "profile", "userById"}

\* the step is a request to a guarded route, with header h and parameter id
Guarded(h, id) ==
    /\ h = resp'.req.authorization /\ id = resp'.req.id
    /\ \/ resp'.op = "users" /\ Users(h)
       \/ resp'.op = "profile" /\ Profile(h)
       \/ resp'.op = "userById" /\ UserById(h, id)

\* the access tokens handed out and still known: those of the logins and
\* the one of the last response
HandedAccess ==
    ({generateAccessToken(x.userId, x.iat) : x \in Range(issued)}
       \cup {resp.accessToken}) \ {NoToken}

\* C12: key separation. An access token that was handed out is never
\* accepted by verifyRefreshToken: refresh answers it as an invalid refresh
\* token and logout removes nothing for it. A refresh token that was handed
\* out is never accepted by verifyAccessToken: the guarded routes answer it
\* 401 'Invalid token.'.
KeySeparation ==
    [][/\ (resp'.accessToken /= NoToken \/ now' /= now) =>
            /\ \A x \in HandedAccess' :
                 ~verifyRefreshToken(users', x, now').valid
            /\ \A x \in Range(issued') : ~verifyAccessToken(x, now').valid
       /\ resp'.op \in {"refresh", "logout"} =>
            LET T == resp'.req.refreshToken
            IN T \in HandedAccess =>
                 /\ Refreshed(T) => Body(resp') = refreshInvalid
                 /\ LoggedOut(T) => users' = users
       /\ resp'.op \in GuardedOps =>
            LET h == resp'.req.authorization
            IN (/\ Guarded(h, resp'.req.id)
                /\ startsWithBearer(h) /\ h[2] \in Range(issued)) =>
                 Body(resp') = Reply(resp'.op, 401, "Invalid token.")]_vars

\* a refresh token of a login has been presented as a bearer token while
\* it is still good for a refresh
RefreshTokenAsBearer ==
    /\ resp.op \in GuardedOps
    /\ startsWithBearer(resp.req.authorization)
    /\ resp.req.authorization[2] \in Range(issued)
    /\ Accepted(users, resp.req.authorization[2], now)

\* the terminal state the guard owes a request with header h, read off the
\* header, the clock and the store
Terminal(us, h, t) ==
    IF h = NoHeader \/ Len(h) < 2 \/ h[1] /= "Bearer"
    THEN "NoToken"
    ELSE LET T == h[2]
             signed == T.form = "jwt" /\ T.key = AccessSecret
         IN IF signed /\ t >= T.exp THEN "TokenExpired"
            ELSE IF ~signed THEN "TokenInvalid"
            ELSE IF \A i \in 1..Len(us) : us[i].id /= T.userId
            THEN "UserNotFound"
            ELSE "Authenticated"

Rejected(op, terminal) ==
    Reply(op, 401,
          CASE terminal = "NoToken" ->
                 "Authentication required. No token provided."
            [] terminal = "TokenExpired" ->
                 "Token has expired. Please refresh your token."
            [] terminal = "TokenInvalid" -> "Invalid token."
            [] terminal = "UserNotFound" -> "User not found."
            [] OTHER -> "")

\* C13: a request to a guarded route ends in the one terminal state that
\* the order NoToken, TokenExpired, TokenInvalid, UserNotFound,
\* Authenticated gives it; every rejection is the 401 of its state, and the
\* route's own handler answers (200, or the 404 of the lookup by id) if and
\* only if the state is Authenticated.
GuardDecides ==
    [][resp'.op \in GuardedOps =>
         LET h == resp'.req.authorization
             terminal == Terminal(users, h, now)
         IN Guarded(h, resp'.req.id) =>
              /\ terminal /= "Authenticated" =>
                   Body(resp') = Rejected(resp'.op, terminal)
              /\ (terminal = "Authenticated") <=> resp'.status /= 401
              /\ terminal = "Authenticated" =>
                   /\ resp'.status \in {200, 404}
                   /\ resp'.op = "profile" => resp'.user.id = h[2].userId
              /\ users' = users]_vars

\* an access token of a login has outlived its 15 minutes and is rejected
\* as expired
ExpiredBearerRejected ==
    /\ resp.op \in GuardedOps
    /\ Body(resp) = Rejected(resp.op, "TokenExpired")
    /\ startsWithBearer(resp.req.authorization)
    /\ resp.req.authorization[2] \in HandedAccess

\* C14 as claimed: POST /logout is a protected endpoint. A logout request
\* whose Authorization header does not carry a valid access token is
\* answered 401 and removes no refresh token.
LogoutProtected ==
    [][resp'.op = "logout" =>
         LET T == resp'.req.refreshToken
         IN \A h \in Headers :
              (/\ Terminal(users, h, now) /= "Authenticated"
               /\ LoggedOut(T) /\ LogoutRequest(h, T))
                 => /\ resp'.status = 401
                    /\ users' = users]_vars

\* C15 as claimed: a refresh with the refresh token of the login that was
\* answered last, before that token expires, succeeds and returns an access
\* token that differs from the access token of that login and from the
\* access token of every earlier login.
RefreshAfterLoginDistinct ==
    [][(resp.op = "login" /\ resp.status = 200 /\ resp'.op = "refresh") =>
         LET T == resp.refreshToken
         IN (Refreshed(T) /\ now < T.exp) =>
              /\ resp'.status = 200
              /\ resp'.accessToken /= resp.accessToken
              /\ \A x \in Range(issued) :
                   resp'.accessToken /= generateAccessToken(x.userId, x.iat)]_vars

PublicFields == {"id", "username", "email"}

TokenFields == {"form", "key", "userId", "iat", "exp"}

\* C16: whatever register, login, the user list, the lookup by id or the
\* profile route answers, the user data in the response is the projection
\* {id, username, email}: no password digest and no refreshTokens list, and
\* the token fields hold tokens only.
ResponsesPublic ==
    /\ DOMAIN resp.user = PublicFields
    /\ \A i \in 1..Len(resp.list) : DOMAIN resp.list[i] = PublicFields
    /\ DOMAIN resp.accessToken = TokenFields
    /\ DOMAIN resp.refreshToken = TokenFields
    /\ DOMAIN resp = {"op", "status", "message", "accessToken",
                      "refreshToken", "user", "list", "req"}

\* the list of users has been served while the store holds a digest and a
\* refresh token
UserListServed ==
    /\ resp.op = "users" /\ resp.status = 200
    /\ Len(resp.list) = Len(users)
    /\ \E i \in 1..Len(users) : users[i].refreshTokens /= << >>

\* C17: a register request with a missing field, a username under 3
\* characters, a password under 6 or a malformed e-mail is answered 400 and
\* creates no user, now or later; so every stored user has a username,
\* e-mail and (hashed) password that satisfy the rules.
ValidationRejects ==
    [][/\ \A r \in RegisterRequests :
            (/\ ~WellFormed(r.username, r.email, r.password)
             /\ RegisterBegin(r.username, r.email, r.password))
               => /\ resp'.status = 400
                  /\ pendingRegs' = pendingRegs
                  /\ users' = users
       /\ \A i \in 1..Len(users') :
            WellFormed(users'[i].username, users'[i].email,
                       users'[i].password.bcrypt)]_vars

\* a request has failed a field check while the store holds a user
ValidationAnswered ==
    /\ resp.op = "register" /\ resp.status = 400
    /\ resp /= alreadyExists
    /\ Len(users) >= 1

\* C18 as claimed: a refresh token is stored in the list of the user whose
\* id it encodes and in no other list; a login with the identifier (its
\* username or its e-mail) and password of user i, a refresh and a logout
\* with a token of user i, leave the list of every other user as it was.
\* Stated for stores whose usernames and e-mails are unique, so that a
\* violation does not rest on two concurrent registrations of one name.
TokensIsolated ==
    [][/\ \A i \in 1..Len(users') :
            \A T \in Range(users'[i].refreshTokens) : T.userId = users'[i].id
       /\ resp'.op = "login" =>
            \A p \in BagToSet(pendingLogins) :
              \A i \in 1..Len(users) :
                (/\ UniqueUsers
                 /\ p.usernameOrEmail \in {users[i].username, users[i].email}
                 /\ comparePassword(p.password, users[i].password)
                 /\ LoginFinish(p))
                   => \A j \in (1..Len(users)) \ {i} :
                        users'[j].refreshTokens = users[j].refreshTokens
       /\ resp'.op \in {"refresh", "logout"} =>
            LET T == resp'.req.refreshToken
            IN (Refreshed(T) \/ LoggedOut(T)) =>
                 \A j \in 1..Len(users) :
                   users[j].id /= T.userId =>
                     users'[j].refreshTokens = users[j].refreshTokens]_vars

\* T carries the id of a stored user
DecodesToKnownUser(us, T) ==
    T.form = "jwt" /\ \E i \in 1..Len(us) : us[i].id = T.userId

\* C19 as claimed: after logout(T), for any T that decodes to a known user,
\* a T that has expired but is still stored included, T is in no list of
\* that user.
LogoutAlwaysRemoves ==
    [][resp'.op = "logout" =>
         LET T == resp'.req.refreshToken
         IN (LoggedOut(T) /\ DecodesToKnownUser(users, T)) =>
              ~hasRefreshToken(users', T.userId, T)]_vars

\* C19: after logout(T) of a T that verifies (signed with the refresh key,
\* unexpired, stored for the user it names) T is in no list of that user;
\* logout(T) of any other T, a T that has expired but is still stored
\* included, leaves every list as it was, so an expired T stays stored.
LogoutRemovesVerified ==
    [][resp'.op = "logout" =>
         LET T == resp'.req.refreshToken
         IN LoggedOut(T) =>
              /\ Accepted(users, T, now) =>
                   ~hasRefreshToken(users', T.userId, T)
              /\ ~Accepted(users, T, now) => users' = users
              /\ (/\ DecodesToKnownUser(users, T) /\ T.key = RefreshSecret
                  /\ now >= T.exp /\ hasRefreshToken(users, T.userId, T))
                   => hasRefreshToken(users', T.userId, T)]_vars

\* a token of a login was logged out after its expiry: it is still in its
\* user's list, and a refresh with it is answered as expired
ExpiredTokenKept ==
    /\ resp.op = "logout"
    /\ resp.req.refreshToken \in Range(issued)
    /\ hasRefreshToken(users, resp.req.refreshToken.userId,
                       resp.req.refreshToken)
    /\ refreshTokenHandler(users, resp.req.refreshToken, now) = refreshExpired

\* s holds no value twice
Distinct(s) ==
    \A i \in 1..Len(s) : \A j \in 1..Len(s) : i /= j => s[i] /= s[j]

\* C20 as claimed: every successful login returns a refresh token that no
\* earlier login returned, so no refreshTokens list holds the same string
\* twice.
LoginsMintFresh ==
    /\ Distinct(issued)
    /\ \A i \in 1..Len(users) : Distinct(users[i].refreshTokens)

\* the tokens a client can hold or make up: what it can present as a
\* refresh token, and every token of a login signed as an access token or
\* by a foreign key
Presentable ==
    TokenInputs
      \cup {AsAccess(x) : x \in Range(issued)}
      \cup {Forged(x) : x \in Range(issued)}

Expired == [valid |-> FALSE, expired |-> TRUE, userId |-> 0]

Invalid == [valid |-> FALSE, expired |-> FALSE, userId |-> 0]

\* C21: verification fails closed, in a fixed order. A token signed with
\* the verifier's key whose expiry has passed is Expired, for a refresh
\* token also when it is no longer stored; a token that is malformed or
\* signed with another key is Invalid, expired or not; no result is both
\* valid and expired, and a result that is not valid carries no user id.
VerifyClassifies ==
    \A T \in Presentable :
      LET r == verifyRefreshToken(users, T, now)
          a == verifyAccessToken(T, now)
      IN /\ (T.form = "jwt" /\ T.key = RefreshSecret /\ now >= T.exp)
              => r = Expired
         /\ (T.form /= "jwt" \/ T.key /= RefreshSecret) => r = Invalid
         /\ (T.form = "jwt" /\ T.key = AccessSecret /\ now >= T.exp)
              => a = Expired
         /\ (T.form /= "jwt" \/ T.key /= AccessSecret) => a = Invalid
         /\ r \in {Expired, Invalid} \/ (r.valid /\ ~r.expired /\ r.userId = T.userId)
         /\ a \in {Expired, Invalid} \/ (a.valid /\ ~a.expired /\ a.userId = T.userId)

\* a refresh token was logged out, has then expired, and a refresh with it
\* was answered as expired
RemovedTokenExpired ==
    /\ resp.op = "refresh" /\ Body(resp) = refreshExpired
    /\ resp.req.refreshToken \in Range(issued)
    /\ ~hasRefreshToken(users, resp.req.refreshToken.userId,
                        resp.req.refreshToken)

\* what the routes answer, and the store they leave, to each request a
\* client can make, as a function of the store and the clock
Results(us, t) ==
    [refresh |-> [T \in TokenInputs |-> refreshTokenHandler(us, T, t)],
     logout |-> [T \in TokenInputs |-> logoutHandler(us, T, t)],
     profile |-> [h \in Headers |-> profileHandler(us, h, t)],
     login |-> [n \in LoginNames |-> findByCredentials(us, n)]]

\* the step answers a login request
LoggedIn ==
    \/ LoginBegin(resp'.req.usernameOrEmail, resp'.req.password)
    \/ \E p \in BagToSet(pendingLogins) : LoginFinish(p)

\* C22: a failed login (401), a rejected refresh (401) and a request
\* rejected by the guard (401) leave the users, their refreshTokens lists
\* and the clock as they were, and every request is answered after the
\* failure as it would have been answered before it.
FailuresChangeNothing ==
    [][(/\ resp'.status = 401
        /\ \/ resp'.op = "login" /\ LoggedIn
           \/ resp'.op = "refresh" /\ Refreshed(resp'.req.refreshToken)
           \/ resp'.op \in GuardedOps
                /\ Guarded(resp'.req.authorization, resp'.req.id))
          => /\ users' = users
             /\ issued' = issued
             /\ Results(users', now') = Results(users, now)]_vars

\* a login of a registered user with a wrong password was refused
FailedLoginOfUser ==
    /\ resp.op = "login" /\ resp.status = 401
    /\ resp.req.password = Hunter
    /\ \E i \in 1..Len(users) :
         users[i].username = resp.req.usernameOrEmail

\* the step is a login answered with success, or a logout
LoginSucceeded ==
    /\ resp'.op = "login" /\ resp'.status = 200
    /\ \E p \in BagToSet(pendingLogins) : LoginFinish(p)

Without(s, T) ==
    LET keep(x) == x /= T IN SelectSeq(s, keep)

\* no stored user is removed, and none changes its id, username, e-mail or
\* password digest
UsersKept ==
    /\ Len(users') >= Len(users)
    /\ \A i \in 1..Len(users) :
         /\ users'[i].id = users[i].id
         /\ users'[i].username = users[i].username
         /\ users'[i].email = users[i].email
         /\ users'[i].password = users[i].password

\* C23 as claimed: a refreshTokens list changes only by an append during a
\* successful login and by a removal during logout; no user is removed and
\* none changes its id, username, e-mail or digest.
ListsOnlyAppendedOrRemoved ==
    [][/\ UsersKept
       /\ \A i \in 1..Len(users) :
            LET old == users[i].refreshTokens
                new == users'[i].refreshTokens
            IN new /= old =>
                 \/ LoginSucceeded /\ new = Append(old, resp'.refreshToken)
                 \/ /\ LoggedOut(resp'.req.refreshToken)
                    /\ new = Without(old, resp'.req.refreshToken)]_vars

\* C23: a refreshTokens list changes only during a successful login, by an
\* append that first drops the oldest entry when the list already holds 5,
\* and during logout, by the removal of the token logged out; no user is
\* removed and none changes its id, username, e-mail or digest.
ListsChangeByLoginAndLogout ==
    [][/\ UsersKept
       /\ \A i \in 1..Len(users) :
            LET old == users[i].refreshTokens
                new == users'[i].refreshTokens
                kept == IF Len(old) >= MaxRefreshTokens THEN Tail(old)
                        ELSE old
            IN new /= old =>
                 \/ LoginSucceeded /\ new = Append(kept, resp'.refreshToken)
                 \/ /\ LoggedOut(resp'.req.refreshToken)
                    /\ new = Without(old, resp'.req.refreshToken)]_vars

\* a login has pushed the oldest token out of a full list
OldestDropped ==
    /\ resp.op = "login" /\ resp.status = 200
    /\ Len(issued) > MaxRefreshTokens
    /\ \E i \in 1..Len(users) :
         /\ Len(users[i].refreshTokens) = MaxRefreshTokens
         /\ users[i].refreshTokens[MaxRefreshTokens] = resp.refreshToken

\* every list other than that of stored user i is as it was
OthersKept(i) ==
    /\ Len(users') = Len(users)
    /\ \A j \in 1..Len(users) :
         j /= i => users'[j].refreshTokens = users[j].refreshTokens

\* C24: under any interleaving of logins, logouts and refreshes of one user
\* no update is lost. A login that completes with success appends its token
\* to the list as it stands at that moment, for the user a login run then
\* without interruption would find; a logout of a stored valid token removes
\* it from the list as it stands and keeps the rest; a refresh writes
\* nothing. Each request so acts at one point on the current list, and the
\* list is the one the requests produce in the order of these points.
NoLostUpdate ==
    [][/\ LoginSucceeded =>
            LET i == findByCredentials(users, resp'.req.usernameOrEmail)
                old == users[i].refreshTokens
                kept == IF Len(old) >= MaxRefreshTokens THEN Tail(old)
                        ELSE old
            IN /\ i /= 0
               /\ users'[i].refreshTokens = Append(kept, resp'.refreshToken)
               /\ OthersKept(i)
       /\ \A T \in TokenInputs :
            (LoggedOut(T) /\ Accepted(users, T, now)) =>
               LET i == findById(users, T.userId)
               IN /\ users'[i].refreshTokens
                       = Without(users[i].refreshTokens, T)
                  /\ OthersKept(i)
       /\ \A T \in TokenInputs : Refreshed(T) => users' = users]_vars

\* a login has completed with its token stored last while another login of
\* the same user is still waiting, and a token issued before is gone from
\* the list by a logout
LoginStoredAmongOthers ==
    /\ resp.op = "login" /\ resp.status = 200
    /\ \E p \in BagToSet(pendingLogins) : p.user = resp.user.id
    /\ \E i \in 1..Len(users) :
         LET list == users[i].refreshTokens
         IN /\ list /= << >>
            /\ list[Len(list)] = resp.refreshToken
            /\ \E T \in Range(issued) : T \notin Range(list)

\* the identity the guard attaches to a request carrying access token x
Identity(us, x, t) == authenticate(us, "profile", <<"Bearer", x>>, t).user

\* the one stored user with this id
Subject(us, userId) ==
    CHOOSE i \in 1..Len(us) : us[i].id = userId

\* C26: the identity is the subject of the presented token. A login that
\* succeeds hands out tokens whose subject is the user whose credentials
\* were given; a guarded request that is let through carries the id,
\* username and e-mail of the one stored user that the access token names;
\* the access token returned by refresh(T) authenticates as the user in
\* whose list T was stored at login, and as no other.
IdentityIsSubject ==
    [][/\ LoginSucceeded =>
            LET i == findByCredentials(users, resp'.req.usernameOrEmail)
            IN /\ comparePassword(resp'.req.password, users[i].password)
               /\ resp'.accessToken.userId = users[i].id
               /\ resp'.refreshToken.userId = users[i].id
               /\ Identity(users', resp'.accessToken, now')
                    = PublicView(users[i])
               /\ \A j \in 1..Len(users) :
                    j /= i => Identity(users', resp'.accessToken, now')
                                /= PublicView(users[j])
       /\ \A h \in Headers :
            (Guarded(h, Empty) /\ resp'.status = 200) =>
               /\ \E i \in 1..Len(users) :
                    /\ users[i].id = h[2].userId
                    /\ \A j \in 1..Len(users) :
                         users[j].id = h[2].userId => j = i
               /\ resp'.user = PublicView(users[Subject(users, h[2].userId)])
       /\ \A T \in TokenInputs :
            (Refreshed(T) /\ resp'.status = 200) =>
               LET i == Subject(users, T.userId)
               IN /\ T \in Range(users[i].refreshTokens)
                  /\ Identity(users', resp'.accessToken, now')
                       = PublicView(users[i])
                  /\ \A j \in 1..Len(users) :
                       j /= i => /\ T \notin Range(users[j].refreshTokens)
                                 /\ Identity(users', resp'.accessToken, now')
                                      /= PublicView(users[j])]_vars

\* the profile route has answered the access token of the second user with
\* that user's identity, while the first user holds a session
SecondUserServed ==
    /\ resp.op = "profile" /\ resp.status = 200
    /\ Len(users) = 2
    /\ resp.user = PublicView(users[2])
    /\ users[1].refreshTokens /= << >>

\* C27: in every reachable state the id of a stored user is its position in
\* insertion order, so the ids are 1..n and no two users share one, also
\* when several registrations wait at once and complete in any order.
IdsArePositions ==
    /\ \A i \in 1..Len(users) : users[i].id = i
    /\ \A i \in 1..Len(users) : \A j \in 1..Len(users) :
         users[i].id = users[j].id => i = j
    /\ \A i \in 1..Len(users) : findById(users, i) = i

\* two registrations that waited at once have both completed: the store
\* holds one username twice, under the ids 1 and 2
RegisteredTogether ==
    /\ Len(users) = 2
    /\ users[1].username = users[2].username
    /\ users[1].id = 1 /\ users[2].id = 2

\* the refresh token of the session of access token x is in no list
SessionEnded(x) ==
    \A i \in 1..Len(users) :
        \A k \in 1..Len(users[i].refreshTokens) :
            LET T == users[i].refreshTokens[k]
            IN ~(T.userId = x.userId /\ T.iat = x.iat)

\* C28: logout does not revoke access tokens. An access token handed out by
\* login or by refresh is let through by the guard as long as its own expiry
\* has not passed, whether or not the refresh token of its session is still
\* stored, and is answered as expired from its expiry on.
AccessOutlivesSession ==
    \A x \in HandedAccess :
        LET a == authenticate(users, "profile", <<"Bearer", x>>, now)
        IN /\ now < x.exp =>
                /\ a.next
                /\ a.user = PublicView(users[Subject(users, x.userId)])
           /\ now >= x.exp =>
                /\ ~a.next
                /\ a.res = Rejected("profile", "TokenExpired")

\* a session ended by logout and a session ended by eviction, each with an
\* access token that has not expired
EndedSessionsStillServed ==
    /\ resp.op = "logout" /\ resp.status = 200
    /\ Len(issued) > MaxRefreshTokens
    /\ resp.req.refreshToken \in Range(issued)
    /\ resp.req.refreshToken /= issued[1]
    /\ SessionEnded(AsAccess(resp.req.refreshToken))
    /\ SessionEnded(AsAccess(issued[1]))
    /\ now < AsAccess(issued[1]).exp
    /\ now < AsAccess(resp.req.refreshToken).exp

\* C29: the guard never ends in Rejected(UserNotFound) for an access token
\* handed out by login or refresh: whenever such a token is presented to a
\* guarded route its subject is in the store, and the answer is not the
\* 401 'User not found.'.
IssuedSubjectResolves ==
    [][\A h \in Headers :
         (/\ Guarded(h, resp'.req.id)
          /\ startsWithBearer(h)
          /\ h[2] \in HandedAccess)
            => /\ findById(users, h[2].userId) /= 0
               /\ Body(resp') /= Rejected(resp'.op, "UserNotFound")
               /\ Terminal(users, h, now) /= "UserNotFound"]_vars

\* a guarded route has looked up a user for a token that was handed out
IssuedBearerResolved ==
    /\ resp.op = "userById" /\ resp.status \in {200, 404}
    /\ resp.req.authorization[2] \in HandedAccess
    /\ Terminal(users, resp.req.authorization, now) = "Authenticated"

\* the session of sessionId is in the map and was last used more than 24
\* hours ago
Idle(sessionId) ==
    /\ chatSessions[sessionId] /= 0
    /\ now - chatObjs[chatSessions[sessionId]].lastUsed > Day

\* C25: a chat session that has gone 24 hours without being used is
\* eventually removed from the chatSessions map, unless it is used again
\* first, whatever uses preceded the idle period.
IdleSessionRemoved ==
    \A sessionId \in ChatIds :
        Idle(sessionId) ~> (chatSessions[sessionId] = 0 \/ ~Idle(sessionId))

\* user message, model reply, user message, model reply, ...
Alternates(history) ==
    /\ Len(history) % 2 = 0
    /\ \A k \in 1..Len(history) :
         history[k].role = (IF k % 2 = 1 THEN "user" ELSE "model")

\* C30: in every reachable state the recorded history of every chat session
\* has even length and alternates user message, model reply: that of every
\* session object, in the map or dropped from it, what getChatHistory
\* returns for every session id, and the history returned last. This
\* holds with several calls for one session in flight and after calls that
\* failed.
HistoryAlternates ==
    /\ \A session \in 1..Len(chatObjs) :
         Alternates(chatObjs[session].history)
    /\ \A sessionId \in ChatIds :
         Alternates(getChatHistory(chatSessions, chatObjs, sessionId))
    /\ Alternates(chatOut.history)

\* of two calls in flight for one session one has been recorded and the
\* other, settled after it, has failed
FailedBesideRecorded ==
    /\ chatOut.error /= ""
    /\ \E sessionId \in ChatIds :
         /\ chatSessions[sessionId] /= 0
         /\ Len(chatObjs[chatSessions[sessionId]].history) = 2 * MaxChatTurns

====
